---- MODULE Spec2Model ----
(***************************************************************************)
(* Model of light_chat/models/ngram_module.py: NgramModuleVanilla (five    *)
(* parameters, three MeanMetric accumulators, training/validation/test     *)
(* steps), train_model, evaluate_model and the __main__ script.            *)
(*                                                                         *)
(* Numbers.  Parameter values are fixed-point integers in units of 1/10,   *)
(* gradients and losses are integers in units of 1, so that the update     *)
(* "p.data += -0.1 * p.grad" is exact.  The values torch computes (the     *)
(* loss of a batch, the gradient backward() produces) are drawn from small *)
(* sets: they are outputs of the tensor library, not of this file.         *)
(* An optional value (a .grad that may be None, a local not yet bound) is  *)
(* a sequence of length 0 (None) or 1.                                     *)
(***************************************************************************)
EXTENDS Integers, Sequences, FiniteSets, TLC

\* ------------------------------------------------------------ bounds
\* Stand-in for epochs=100 of the script, and the largest epochs a caller passes.
MaxEpochs == 2
\* Largest number of batches a loader yields.
MaxBatches == 2

\* ------------------------------------------------------- program constants
\* self.parameters holds five tensors.
NumParams == 5
\* The learning rate 0.1 in units of 1/10.
LearningRateTenths == 1

None == <<>>
Some(x) == <<x>>
Val(o) == o[1]

ParamIds == 1..NumParams
\* enc, first_W, first_bias, second_W, second_bias, in the order of the list.
ParametersList == <<1, 2, 3, 4, 5>>
\* The values torch.randn draws under the fixed seed 42 (one scalar per tensor).
InitParams == <<3, -2, 0, 5, -1>>

\* Losses model_step can return and gradients backward() can produce.
LossValues == {1, 3}
GradVectors == {<<1, -1, 2, -2, 1>>, <<-1, 2, 1, 1, -3>>}

MetricNames == {"train_loss", "val_loss", "test_loss"}
Callers == {"__main__", "import"}

RECURSIVE SumSeq(_)
SumSeq(s) == IF s = <<>> THEN 0 ELSE s[1] + SumSeq(Tail(s))

\* --------------------------------------------------------- MeanMetric
\* MeanMetric(): mean_value = 0, weight = 0.
MetricNew == [sum |-> 0, weight |-> 0]
\* MeanMetric.update(v): adds v with weight 1.
MetricUpdate(m, v) == [sum |-> m.sum + v, weight |-> m.weight + 1]
\* MeanMetric.reset(): back to the default state.
MetricReset(m) == MetricNew
\* MeanMetric.compute(): mean_value / weight, kept as a fraction (den = 0: nan).
MetricCompute(m) == [num |-> m.sum, den |-> m.weight]

\* ------------------------------------------------------------ autograd
\* loss.backward(): adds g to each parameter's .grad (sets it when None).
Backward(gr, g) ==
  [i \in ParamIds |-> IF gr[i] = None THEN Some(g[i]) ELSE Some(Val(gr[i]) + g[i])]

\* parameters.data += -0.1 * parameters.grad
SgdStep(p, g) == p + (-(LearningRateTenths)) * g

\* parameters.grad = None, without it (the mutant) the gradient stays.
KeepGrad(gr, i) == gr
ClearGrad(gr, i) == [gr EXCEPT ![i] = None]

\* The metric each step kind updates.
TrainingStepMetricWrong == "val_loss"
TrainingStepMetric == "train_loss"
ValidationStepMetric == "val_loss"
TestStepMetric == "test_loss"

\* What line 102 passes as test_loader: the bound method dataset.test_dataloader,
\* not the loader it returns; a caller of evaluate_model passes a DataLoader.
TestLoaderArg(c) == IF c = "__main__" THEN "BoundMethod" ELSE "DataLoader"

VARIABLES
  pc,          \* the statement about to run
  caller,      \* "__main__": the script; "import": a caller of the two functions
  epochs,      \* train_model's epochs argument
  nb,          \* batches each loader yields: train, val, test
  epoch,       \* the for loop's epoch
  batchIdx,    \* batches of the current loader already consumed
  k,           \* position in self.parameters during the update loop
  params,      \* .data of the five parameters
  grad,        \* .grad of the five parameters
  metrics,     \* state of train_loss, val_loss, test_loss
  loss,        \* the step's local loss
  gradEnabled, \* FALSE inside torch.no_grad()
  testLoader,  \* evaluate_model's test_loader argument
  lastReport,  \* what lines 83-84 printed last
  testReport,  \* what line 93 printed
  raisedBy,    \* the exception raised, if any: "step" (inside model_step), "TypeError"
  \* history variables
  since,       \* per metric: losses of its step kind since its last reset
  nResets,     \* per metric: reset() calls so far
  epochLog,    \* per metric: losses of its step kind in the current epoch
  nTrain, nVal, nTest, nReports,  \* completed steps and reports
  preParams,   \* params when the current training step began
  stepGrad,    \* the gradient of the current step's loss
  gradSum,     \* sum of the gradients of the completed updates
  completedParams, \* params after the last completed training step
  evalEntered, evalEntryParams, \* evaluate_model was called, params at that call
  trainReturned  \* train_model returned normally

vars == <<pc, caller, epochs, nb, epoch, batchIdx, k, params, grad, metrics, loss,
          gradEnabled, testLoader, lastReport, testReport, raisedBy, since, nResets,
          epochLog, nTrain, nVal, nTest, nReports, preParams, stepGrad, gradSum,
          completedParams, evalEntered, evalEntryParams, trainReturned>>

ctl == <<caller, epochs, nb>>
hist == <<since, nResets, epochLog, nTrain, nVal, nTest, nReports, preParams, stepGrad,
          gradSum, completedParams, evalEntered, evalEntryParams, trainReturned>>

NoReport == [epoch |-> -1, train |-> MetricCompute(MetricNew), val |-> MetricCompute(MetricNew)]

\* NgramModuleVanilla() constructed, the caller about to call train_model.
Init ==
  /\ pc = "start"
  /\ caller \in Callers
  /\ epochs \in 0..MaxEpochs
  /\ (caller = "__main__" => epochs = MaxEpochs)
  /\ nb \in [MetricNames -> 1..MaxBatches]
  /\ epoch = 0
  /\ batchIdx = 0
  /\ k = 1
  /\ params = InitParams
  /\ grad = [i \in ParamIds |-> None]
  /\ metrics = [m \in MetricNames |-> MetricNew]
  /\ loss = None
  /\ gradEnabled = TRUE
  /\ testLoader = "unbound"
  /\ lastReport = NoReport
  /\ testReport = None
  /\ raisedBy = "none"
  /\ since = [m \in MetricNames |-> <<>>]
  /\ nResets = [m \in MetricNames |-> 0]
  /\ epochLog = [m \in MetricNames |-> <<>>]
  /\ nTrain = 0 /\ nVal = 0 /\ nTest = 0 /\ nReports = 0
  /\ preParams = InitParams
  /\ stepGrad = [i \in ParamIds |-> 0]
  /\ gradSum = [i \in ParamIds |-> 0]
  /\ completedParams = InitParams
  /\ evalEntered = FALSE
  /\ evalEntryParams = InitParams
  /\ trainReturned = FALSE

\* An exception leaves the program: nothing catches it (no try in the file), and
\* a with torch.no_grad() block it passes through restores the gradient mode.
Propagate(kind) ==
  /\ pc' = "raised"
  /\ raisedBy' = kind
  /\ gradEnabled' = TRUE

\* ---------------------------------------------------------- train_model
\* Line 101 (or a caller): train_model(model, train_loader, val_loader, epochs).
CallTrainModel ==
  /\ pc = "start"
  /\ pc' = "epoch_head"
  /\ epoch' = 0
  /\ UNCHANGED <<ctl, batchIdx, k, params, grad, metrics, loss, gradEnabled, testLoader,
                 lastReport, testReport, raisedBy, hist>>

\* for epoch in range(epochs + 1): one epoch too many (the mutant).
EpochHeadOneMore ==
  /\ pc = "epoch_head"
  /\ \/ /\ epoch < epochs + 1
        /\ pc' = "train_head"
        /\ batchIdx' = 0
        /\ epochLog' = [m \in MetricNames |-> <<>>]
        /\ UNCHANGED trainReturned
     \/ /\ epoch >= epochs + 1
        /\ pc' = "returned"
        /\ trainReturned' = TRUE
        /\ UNCHANGED <<batchIdx, epochLog>>
  /\ UNCHANGED <<ctl, epoch, k, params, grad, metrics, loss, gradEnabled, testLoader,
                 lastReport, testReport, raisedBy, since, nResets, nTrain, nVal, nTest,
                 nReports, preParams, stepGrad, gradSum, completedParams, evalEntered,
                 evalEntryParams>>

\* for epoch in range(epochs): the next epoch begins, or train_model returns.
EpochHead ==
  /\ pc = "epoch_head"
  /\ \/ /\ epoch < epochs
        /\ pc' = "train_head"
        /\ batchIdx' = 0
        /\ epochLog' = [m \in MetricNames |-> <<>>]
        /\ UNCHANGED trainReturned
     \/ /\ epoch >= epochs
        /\ pc' = "returned"
        /\ trainReturned' = TRUE
        /\ UNCHANGED <<batchIdx, epochLog>>
  /\ UNCHANGED <<ctl, epoch, k, params, grad, metrics, loss, gradEnabled, testLoader,
                 lastReport, testReport, raisedBy, since, nResets, nTrain, nVal, nTest,
                 nReports, preParams, stepGrad, gradSum, completedParams, evalEntered,
                 evalEntryParams>>

\* for batch_idx, batch in enumerate(train_loader): the next batch, or the loop ends.
TrainHead ==
  /\ pc = "train_head"
  /\ \/ /\ batchIdx < nb["train_loss"]
        /\ pc' = "ts_model_step"
        /\ UNCHANGED batchIdx
     \/ /\ batchIdx >= nb["train_loss"]
        /\ pc' = "val_head"
        /\ batchIdx' = 0
  /\ UNCHANGED <<ctl, epoch, k, params, grad, metrics, loss, gradEnabled, testLoader,
                 lastReport, testReport, raisedBy, hist>>

\* model_step returns the loss of the batch: forward, then the criterion.
ModelStepReturns(next) ==
  /\ \E l \in LossValues : loss' = Some(l)
  /\ pc' = next
  /\ UNCHANGED <<raisedBy, gradEnabled>>

\* training_step, line 51: loss = self.model_step(batch).
TsModelStep ==
  /\ pc = "ts_model_step"
  /\ ModelStepReturns("ts_backward")
  /\ preParams' = params
  /\ UNCHANGED <<ctl, epoch, batchIdx, k, params, grad, metrics, testLoader, lastReport,
                 testReport, since, nResets, epochLog, nTrain, nVal, nTest, nReports,
                 stepGrad, gradSum, completedParams, evalEntered, evalEntryParams,
                 trainReturned>>

\* The failure caught and the batch skipped (the mutant).
TsModelStepSwallowed ==
  /\ pc = "ts_model_step"
  /\ raisedBy' = "step"
  /\ pc' = "train_head"
  /\ batchIdx' = batchIdx + 1
  /\ UNCHANGED <<ctl, epoch, k, params, grad, metrics, loss, gradEnabled, testLoader,
                 lastReport, testReport, hist>>

\* training_step, line 51, on a batch forward or the criterion rejects (a missing
\* key, a shape mismatch): the exception leaves training_step and train_model.
TsModelStepRaises ==
  /\ pc = "ts_model_step"
  /\ Propagate("step")
  /\ UNCHANGED <<ctl, epoch, batchIdx, k, params, grad, metrics, loss, testLoader,
                 lastReport, testReport, hist>>

\* training_step, line 52: loss.backward().
TsBackward ==
  /\ pc = "ts_backward"
  /\ \E g \in GradVectors :
        /\ grad' = Backward(grad, g)
        /\ stepGrad' = [i \in ParamIds |-> g[i]]
  /\ k' = 1
  /\ pc' = "ts_update"
  /\ UNCHANGED <<ctl, epoch, batchIdx, params, metrics, loss, gradEnabled, testLoader,
                 lastReport, testReport, raisedBy, since, nResets, epochLog, nTrain, nVal,
                 nTest, nReports, preParams, gradSum, completedParams, evalEntered,
                 evalEntryParams, trainReturned>>

\* training_step, lines 53-55: one turn of the loop over self.parameters.
\* -0.1 * None raises TypeError.
TsUpdate ==
  /\ pc = "ts_update"
  /\ LET i == ParametersList[k] IN
       IF grad[i] = None
       THEN /\ Propagate("TypeError")
            /\ UNCHANGED <<params, grad, k>>
       ELSE /\ params' = [params EXCEPT ![i] = SgdStep(@, Val(grad[i]))]
            /\ grad' = ClearGrad(grad, i)
            /\ k' = k + 1
            /\ pc' = IF k = Len(ParametersList) THEN "ts_metric" ELSE "ts_update"
            /\ UNCHANGED <<raisedBy, gradEnabled>>
  /\ UNCHANGED <<ctl, epoch, batchIdx, metrics, loss, testLoader, lastReport, testReport,
                 hist>>

\* training_step, lines 56-57, and the print of lines 78-80.
TsMetric ==
  /\ pc = "ts_metric"
  /\ metrics' = [metrics EXCEPT ![TrainingStepMetric] = MetricUpdate(@, Val(loss))]
  /\ since' = [since EXCEPT !["train_loss"] = Append(@, Val(loss))]
  /\ epochLog' = [epochLog EXCEPT !["train_loss"] = Append(@, Val(loss))]
  /\ nTrain' = nTrain + 1
  /\ gradSum' = [i \in ParamIds |-> gradSum[i] + stepGrad[i]]
  /\ completedParams' = params
  /\ preParams' = params
  /\ stepGrad' = [i \in ParamIds |-> 0]
  /\ loss' = None
  /\ batchIdx' = batchIdx + 1
  /\ pc' = "train_head"
  /\ UNCHANGED <<ctl, epoch, k, params, grad, gradEnabled, testLoader, lastReport,
                 testReport, raisedBy, nResets, nVal, nTest, nReports, evalEntered,
                 evalEntryParams, trainReturned>>

\* for batch in val_loader: the next batch, or the loop ends.
ValHead ==
  /\ pc = "val_head"
  /\ \/ /\ batchIdx < nb["val_loss"]
        /\ pc' = "vs_model_step"
     \/ /\ batchIdx >= nb["val_loss"]
        /\ pc' = "report"
  /\ UNCHANGED <<ctl, epoch, batchIdx, k, params, grad, metrics, loss, gradEnabled,
                 testLoader, lastReport, testReport, raisedBy, hist>>

\* validation_step, line 61.
VsModelStep ==
  /\ pc = "vs_model_step"
  /\ ModelStepReturns("vs_metric")
  /\ UNCHANGED <<ctl, epoch, batchIdx, k, params, grad, metrics, testLoader, lastReport,
                 testReport, hist>>

VsModelStepRaises ==
  /\ pc = "vs_model_step"
  /\ Propagate("step")
  /\ UNCHANGED <<ctl, epoch, batchIdx, k, params, grad, metrics, loss, testLoader,
                 lastReport, testReport, hist>>

\* validation_step with a loss.backward() before the update of the metric (the mutant).
VsMetricBackward ==
  /\ pc = "vs_metric"
  /\ \E g \in GradVectors : grad' = Backward(grad, g)
  /\ metrics' = [metrics EXCEPT ![ValidationStepMetric] = MetricUpdate(@, Val(loss))]
  /\ since' = [since EXCEPT !["val_loss"] = Append(@, Val(loss))]
  /\ epochLog' = [epochLog EXCEPT !["val_loss"] = Append(@, Val(loss))]
  /\ nVal' = nVal + 1
  /\ batchIdx' = batchIdx + 1
  /\ pc' = "val_head"
  /\ loss' = None
  /\ UNCHANGED <<ctl, epoch, k, params, gradEnabled, testLoader, lastReport,
                 testReport, raisedBy, nResets, nTrain, nTest, nReports, preParams,
                 stepGrad, gradSum, completedParams, evalEntered, evalEntryParams,
                 trainReturned>>

\* validation_step, line 62.
VsMetric ==
  /\ pc = "vs_metric"
  /\ metrics' = [metrics EXCEPT ![ValidationStepMetric] = MetricUpdate(@, Val(loss))]
  /\ since' = [since EXCEPT !["val_loss"] = Append(@, Val(loss))]
  /\ epochLog' = [epochLog EXCEPT !["val_loss"] = Append(@, Val(loss))]
  /\ nVal' = nVal + 1
  /\ batchIdx' = batchIdx + 1
  /\ pc' = "val_head"
  /\ loss' = None
  /\ UNCHANGED <<ctl, epoch, k, params, grad, gradEnabled, testLoader, lastReport,
                 testReport, raisedBy, nResets, nTrain, nTest, nReports, preParams,
                 stepGrad, gradSum, completedParams, evalEntered, evalEntryParams,
                 trainReturned>>

\* Lines 83-84: the epoch's two means are computed and printed.
Report ==
  /\ pc = "report"
  /\ lastReport' = [epoch |-> epoch,
                    train |-> MetricCompute(metrics["train_loss"]),
                    val |-> MetricCompute(metrics["val_loss"])]
  /\ nReports' = nReports + 1
  /\ pc' = "reset_train"
  /\ UNCHANGED <<ctl, epoch, batchIdx, k, params, grad, metrics, loss, gradEnabled,
                 testLoader, testReport, raisedBy, since, nResets, epochLog, nTrain, nVal,
                 nTest, preParams, stepGrad, gradSum, completedParams, evalEntered,
                 evalEntryParams, trainReturned>>

\* Line 85 left out (the mutant).
ResetTrainSkipped ==
  /\ pc = "reset_train"
  /\ pc' = "reset_val"
  /\ UNCHANGED <<ctl, epoch, batchIdx, k, params, grad, metrics, loss, gradEnabled,
                 testLoader, lastReport, testReport, raisedBy, hist>>

\* Line 85: model.train_loss.reset().
ResetTrain ==
  /\ pc = "reset_train"
  /\ metrics' = [metrics EXCEPT !["train_loss"] = MetricReset(@)]
  /\ since' = [since EXCEPT !["train_loss"] = <<>>]
  /\ nResets' = [nResets EXCEPT !["train_loss"] = @ + 1]
  /\ pc' = "reset_val"
  /\ UNCHANGED <<ctl, epoch, batchIdx, k, params, grad, loss, gradEnabled, testLoader,
                 lastReport, testReport, raisedBy, epochLog, nTrain, nVal, nTest, nReports,
                 preParams, stepGrad, gradSum, completedParams, evalEntered,
                 evalEntryParams, trainReturned>>

\* Line 86: model.val_loss.reset(); the epoch ends.
ResetVal ==
  /\ pc = "reset_val"
  /\ metrics' = [metrics EXCEPT !["val_loss"] = MetricReset(@)]
  /\ since' = [since EXCEPT !["val_loss"] = <<>>]
  /\ nResets' = [nResets EXCEPT !["val_loss"] = @ + 1]
  /\ epoch' = epoch + 1
  /\ pc' = "epoch_head"
  /\ UNCHANGED <<ctl, batchIdx, k, params, grad, loss, gradEnabled, testLoader,
                 lastReport, testReport, raisedBy, epochLog, nTrain, nVal, nTest, nReports,
                 preParams, stepGrad, gradSum, completedParams, evalEntered,
                 evalEntryParams, trainReturned>>

\* ------------------------------------------------------- evaluate_model
\* Line 102 (or a caller): evaluate_model(model, test_loader); line 90 enters
\* torch.no_grad().
CallEvaluateModel ==
  /\ pc = "returned"
  /\ testLoader' = TestLoaderArg(caller)
  /\ evalEntered' = TRUE
  /\ evalEntryParams' = params
  /\ gradEnabled' = FALSE
  /\ batchIdx' = 0
  /\ pc' = "eval_head"
  /\ UNCHANGED <<ctl, epoch, k, params, grad, metrics, loss, lastReport, testReport,
                 raisedBy, since, nResets, epochLog, nTrain, nVal, nTest, nReports,
                 preParams, stepGrad, gradSum, completedParams, trainReturned>>

\* Line 91, for batch in test_loader: iter() of a bound method raises TypeError;
\* of a DataLoader, the next batch, or the loop and the with block end.
EvalHead ==
  /\ pc = "eval_head"
  /\ \/ /\ testLoader = "BoundMethod"
        /\ Propagate("TypeError")
     \/ /\ testLoader = "DataLoader"
        /\ batchIdx < nb["test_loss"]
        /\ pc' = "tes_model_step"
        /\ UNCHANGED <<raisedBy, gradEnabled>>
     \/ /\ testLoader = "DataLoader"
        /\ batchIdx >= nb["test_loss"]
        /\ pc' = "eval_report"
        /\ gradEnabled' = TRUE
        /\ UNCHANGED raisedBy
  /\ UNCHANGED <<ctl, epoch, batchIdx, k, params, grad, metrics, loss, testLoader,
                 lastReport, testReport, hist>>

\* test_step, line 66.
TesModelStep ==
  /\ pc = "tes_model_step"
  /\ ModelStepReturns("tes_metric")
  /\ UNCHANGED <<ctl, epoch, batchIdx, k, params, grad, metrics, testLoader, lastReport,
                 testReport, hist>>

TesModelStepRaises ==
  /\ pc = "tes_model_step"
  /\ Propagate("step")
  /\ UNCHANGED <<ctl, epoch, batchIdx, k, params, grad, metrics, loss, testLoader,
                 lastReport, testReport, hist>>

\* test_step that also applies an update to the parameters (the mutant).
TesMetricUpdatesParams ==
  /\ pc = "tes_metric"
  /\ \E g \in GradVectors : params' = [i \in ParamIds |-> SgdStep(params[i], g[i])]
  /\ metrics' = [metrics EXCEPT ![TestStepMetric] = MetricUpdate(@, Val(loss))]
  /\ since' = [since EXCEPT !["test_loss"] = Append(@, Val(loss))]
  /\ nTest' = nTest + 1
  /\ batchIdx' = batchIdx + 1
  /\ pc' = "eval_head"
  /\ loss' = None
  /\ UNCHANGED <<ctl, epoch, k, grad, gradEnabled, testLoader, lastReport,
                 testReport, raisedBy, nResets, epochLog, nTrain, nVal, nReports, preParams,
                 stepGrad, gradSum, completedParams, evalEntered, evalEntryParams,
                 trainReturned>>

\* test_step, line 67.
TesMetric ==
  /\ pc = "tes_metric"
  /\ metrics' = [metrics EXCEPT ![TestStepMetric] = MetricUpdate(@, Val(loss))]
  /\ since' = [since EXCEPT !["test_loss"] = Append(@, Val(loss))]
  /\ nTest' = nTest + 1
  /\ batchIdx' = batchIdx + 1
  /\ pc' = "eval_head"
  /\ loss' = None
  /\ UNCHANGED <<ctl, epoch, k, params, grad, gradEnabled, testLoader, lastReport,
                 testReport, raisedBy, nResets, epochLog, nTrain, nVal, nReports, preParams,
                 stepGrad, gradSum, completedParams, evalEntered, evalEntryParams,
                 trainReturned>>

\* Line 93: the test mean is computed and printed.
EvalReport ==
  /\ pc = "eval_report"
  /\ testReport' = Some(MetricCompute(metrics["test_loss"]))
  /\ pc' = "eval_reset"
  /\ UNCHANGED <<ctl, epoch, batchIdx, k, params, grad, metrics, loss, gradEnabled,
                 testLoader, lastReport, raisedBy, hist>>

\* Line 94: model.test_loss.reset(); evaluate_model returns.
EvalReset ==
  /\ pc = "eval_reset"
  /\ metrics' = [metrics EXCEPT !["test_loss"] = MetricReset(@)]
  /\ since' = [since EXCEPT !["test_loss"] = <<>>]
  /\ nResets' = [nResets EXCEPT !["test_loss"] = @ + 1]
  /\ pc' = "done"
  /\ UNCHANGED <<ctl, epoch, batchIdx, k, params, grad, loss, gradEnabled, testLoader,
                 lastReport, testReport, raisedBy, epochLog, nTrain, nVal, nTest, nReports,
                 preParams, stepGrad, gradSum, completedParams, evalEntered,
                 evalEntryParams, trainReturned>>

Next ==
  \/ CallTrainModel
  \/ EpochHead
  \/ TrainHead
  \/ TsModelStep
  \/ TsModelStepRaises
  \/ TsBackward
  \/ TsUpdate
  \/ TsMetric
  \/ ValHead
  \/ VsModelStep
  \/ VsModelStepRaises
  \/ VsMetric
  \/ Report
  \/ ResetTrain
  \/ ResetVal
  \/ CallEvaluateModel
  \/ EvalHead
  \/ TesModelStep
  \/ TesModelStepRaises
  \/ TesMetric
  \/ EvalReport
  \/ EvalReset

Spec == Init /\ [][Next]_vars

\* ================================================================ claims
AllGradNone == \A i \in ParamIds : grad[i] = None
\* The float compute() returned is the mean of the values of s.
IsMeanOf(r, s) == Len(s) >= 1 /\ r.den # 0 /\ r.num * Len(s) = SumSeq(s) * r.den
InTraining == pc \in {"ts_model_step", "ts_backward", "ts_update", "ts_metric"}
InValidation == pc \in {"vs_model_step", "vs_metric"}
InTest == pc \in {"tes_model_step", "tes_metric"}
TrainPhase == InTraining \/ pc = "train_head"
ValPhase == InValidation \/ pc = "val_head"

\* C1: every running-mean metric holds nothing right after its reset, and after
\* N >= 1 steps of its kind since its last reset compute() is the mean of exactly
\* those N losses, whatever was recorded before the reset.
C1_RunningMean ==
  \A m \in MetricNames :
    /\ since[m] = <<>> => metrics[m].sum = 0 /\ metrics[m].weight = 0
    /\ Len(since[m]) >= 1 => IsMeanOf(MetricCompute(metrics[m]), since[m])

\* train_loss was reset after an epoch whose mean was 3, and holds 1 and 3 since.
C1_Witness ==
  /\ nResets["train_loss"] >= 1
  /\ lastReport.train = [num |-> 6, den |-> 2]
  /\ since["train_loss"] = <<1, 3>>
  /\ MetricCompute(metrics["train_loss"]) = [num |-> 4, den |-> 2]

\* C2: from the call of evaluate_model on, the five parameters keep the values
\* they had at the call and no parameter has a gradient.
C2_EvaluateKeepsParams ==
  evalEntered => params = evalEntryParams /\ AllGradNone

\* evaluate_model returned after two test steps, on trained parameters.
C2_Witness ==
  /\ pc = "done"
  /\ nTest = 2
  /\ nTrain >= 1
  /\ params # InitParams

\* C4: a run of the script that finishes training goes on to evaluation without
\* an error (a batch a step rejects aside).
C4_ScriptEvaluates ==
  (caller = "__main__" /\ trainReturned /\ raisedBy # "step") => pc # "raised"

\* C6: a training step updates each parameter once, p := p - 0.1 * g with g the
\* gradient of this step's loss, and clears its gradient: after the loop every
\* parameter is preParams - 0.1 * stepGrad, and outside the loop no parameter has
\* a gradient, so no gradient is carried into the next step.
C6_SgdUpdate ==
  /\ pc # "ts_update" => AllGradNone
  /\ pc = "ts_metric" =>
       \A i \in ParamIds : 10 * params[i] = 10 * preParams[i] - stepGrad[i] * 10 * LearningRateTenths
  /\ pc = "ts_update" =>
       \A j \in 1..NumParams :
         LET i == ParametersList[j] IN
           IF j < k
           THEN grad[i] = None /\ params[i] = preParams[i] - stepGrad[i] * LearningRateTenths
           ELSE grad[i] = Some(stepGrad[i]) /\ params[i] = preParams[i]

\* The update loop of a second training step has finished.
C6_Witness ==
  /\ pc = "ts_metric"
  /\ nTrain >= 1
  /\ params # preParams
  /\ preParams # InitParams

\* C7: at the start of every epoch train_loss and val_loss hold nothing, and the
\* two means printed for epoch e are the means of exactly the B training losses
\* and the V validation losses of epoch e.
C7_EpochMeans ==
  /\ (pc = "train_head" /\ batchIdx = 0) =>
       metrics["train_loss"] = MetricNew /\ metrics["val_loss"] = MetricNew
  /\ pc = "reset_train" =>
       /\ lastReport.epoch = epoch
       /\ Len(epochLog["train_loss"]) = nb["train_loss"]
       /\ Len(epochLog["val_loss"]) = nb["val_loss"]
       /\ IsMeanOf(lastReport.train, epochLog["train_loss"])
       /\ IsMeanOf(lastReport.val, epochLog["val_loss"])

\* The second epoch's report, its losses other than the first epoch's.
C7_Witness ==
  /\ pc = "reset_train"
  /\ epoch = 1
  /\ epochLog["train_loss"] = <<1, 1>>
  /\ epochLog["val_loss"] = <<3>>
  /\ nTrain = 4
  /\ lastReport.train = [num |-> 2, den |-> 2]

\* C8: train_model runs E*B training steps and E*V validation steps in order: in
\* epoch e the B training steps, then the V validation steps, then the report,
\* then the two resets, then epoch e + 1; it returns after E epochs.
C8_StepOrder ==
  LET B == nb["train_loss"]
      V == nb["val_loss"]
  IN
  /\ TrainPhase =>
       /\ epoch < epochs /\ batchIdx <= B
       /\ nTrain = epoch * B + batchIdx /\ nVal = epoch * V /\ nReports = epoch
       /\ nResets["train_loss"] = epoch /\ nResets["val_loss"] = epoch
  /\ ValPhase =>
       /\ epoch < epochs /\ batchIdx <= V
       /\ nTrain = (epoch + 1) * B /\ nVal = epoch * V + batchIdx /\ nReports = epoch
       /\ nResets["train_loss"] = epoch /\ nResets["val_loss"] = epoch
  /\ pc = "report" =>
       /\ nTrain = (epoch + 1) * B /\ nVal = (epoch + 1) * V /\ nReports = epoch
       /\ nResets["train_loss"] = epoch /\ nResets["val_loss"] = epoch
  /\ pc = "reset_train" =>
       /\ nTrain = (epoch + 1) * B /\ nVal = (epoch + 1) * V /\ nReports = epoch + 1
       /\ nResets["train_loss"] = epoch /\ nResets["val_loss"] = epoch
  /\ pc = "reset_val" =>
       /\ nTrain = (epoch + 1) * B /\ nVal = (epoch + 1) * V /\ nReports = epoch + 1
       /\ nResets["train_loss"] = epoch + 1 /\ nResets["val_loss"] = epoch
  /\ trainReturned =>
       /\ nTrain = epochs * B /\ nVal = epochs * V /\ nReports = epochs
       /\ nResets["train_loss"] = epochs /\ nResets["val_loss"] = epochs

\* train_model returned after two epochs of two training and two validation steps.
C8_Witness ==
  /\ pc = "returned"
  /\ epochs = 2
  /\ nb["train_loss"] = 2
  /\ nb["val_loss"] = 2
  /\ nTrain = 4
  /\ nVal = 4

\* C9: when a step raises, the exception leaves the program: the raising step
\* changes no parameter, gradient, metric or output, the parameters are those the
\* last completed training step left, and nothing runs afterwards.
C9_FailurePropagates ==
  [][ /\ raisedBy # "step"
      /\ raisedBy' = "step" =>
           /\ pc' = "raised"
           /\ params' = params /\ params' = completedParams'
           /\ grad' = grad /\ (\A i \in ParamIds : grad'[i] = None)
           /\ metrics' = metrics
           /\ lastReport' = lastReport /\ testReport' = testReport
           /\ nTrain' = nTrain /\ nVal' = nVal /\ nTest' = nTest /\ nReports' = nReports
           /\ nResets' = nResets ]_vars

\* A training step raised after an earlier one had completed.
C9_Witness ==
  /\ pc = "raised"
  /\ raisedBy = "step"
  /\ nTrain = 1
  /\ loss = None
  /\ params # InitParams
  /\ params = completedParams

\* C10: a validation or test step changes no parameter and no gradient and adds
\* one value, its loss, to its own metric only; a training step changes neither
\* val_loss nor test_loss; between steps the parameters are the initial ones
\* minus 0.1 times the gradients of the training steps.
C10_StepFrames ==
  [][ /\ InValidation =>
           /\ params' = params /\ grad' = grad
           /\ metrics'["train_loss"] = metrics["train_loss"]
           /\ metrics'["test_loss"] = metrics["test_loss"]
           /\ \/ metrics'["val_loss"] = metrics["val_loss"] /\ pc # "vs_metric"
              \/ /\ pc = "vs_metric"
                 /\ metrics'["val_loss"].weight = metrics["val_loss"].weight + 1
                 /\ metrics'["val_loss"].sum = metrics["val_loss"].sum + Val(loss)
      /\ InTest =>
           /\ params' = params /\ grad' = grad
           /\ metrics'["train_loss"] = metrics["train_loss"]
           /\ metrics'["val_loss"] = metrics["val_loss"]
           /\ \/ metrics'["test_loss"] = metrics["test_loss"] /\ pc # "tes_metric"
              \/ /\ pc = "tes_metric"
                 /\ metrics'["test_loss"].weight = metrics["test_loss"].weight + 1
                 /\ metrics'["test_loss"].sum = metrics["test_loss"].sum + Val(loss)
      /\ InTraining =>
           /\ metrics'["val_loss"] = metrics["val_loss"]
           /\ metrics'["test_loss"] = metrics["test_loss"]
      /\ ~InTraining' =>
           \A i \in ParamIds : params'[i] = InitParams[i] - gradSum'[i] * LearningRateTenths
    ]_vars

\* A validation step finished after a training step, each with a loss of its own.
C10_Witness ==
  /\ pc = "val_head"
  /\ batchIdx = 1
  /\ nTrain >= 1
  /\ since["val_loss"] = <<3>>
  /\ since["train_loss"][1] = 1
  /\ params # InitParams

====
